---------------------------- MODULE Spec2Model ----------------------------
(***************************************************************************)
(* A model of bank (src/main.rs): one invocation of the command-line tool  *)
(* that validates its flags and then processes its PATH arguments one by   *)
(* one (classify, create parents, create, set times, set permissions).     *)
(*                                                                         *)
(* Strings are sequences of one-character strings, so that the code's      *)
(* string operations (split, slices, ends_with, extension) are computed.   *)
(* The filesystem is a function from node keys (sequences of component     *)
(* names below the root) to entries; the working directory is the root.    *)
(* Instants are pairs [days, secs]: days since 1970-01-01 and the second   *)
(* of the day (UTC).                                                       *)
(***************************************************************************)
EXTENDS Integers, Sequences, FiniteSets, TLC

VARIABLES
    args,           \* the parsed command line (struct Args), fixed
    fs,             \* the filesystem
    now,            \* the clock
    pc,             \* the position in main / process_single_path
    idx,            \* how many paths the loop of main has taken
    path_str,       \* the loop variable of main
    custom_time,    \* process_single_path's custom_time
    creation_type,  \* process_single_path's creation_type
    instants        \* the instants parse_timestamp has returned so far

vars == <<args, fs, now, pc, idx, path_str, custom_time, creation_type,
          instants>>

---------------------------------------------------------------------------
(* Strings                                                                 *)

Digits == <<"0", "1", "2", "3", "4", "5", "6", "7", "8", "9">>

IsDigit(c) == \E i \in 1..10 : Digits[i] = c

DigitVal(c) == (CHOOSE i \in 1..10 : Digits[i] = c) - 1

Contains(s, c) == \E i \in 1..Len(s) : s[i] = c

EndsWith(s, c) == Len(s) > 0 /\ s[Len(s)] = c

\* s[a..b) with 0-based bounds, as a Rust slice base[a..b]
Slice(s, a, b) == SubSeq(s, a + 1, b)

\* str::split(sep): the pieces between separators, empty pieces kept
RECURSIVE SplitFrom(_, _, _, _)
SplitFrom(s, sep, i, cur) ==
    IF i > Len(s) THEN <<cur>>
    ELSE IF s[i] = sep THEN <<cur>> \o SplitFrom(s, sep, i + 1, <<>>)
    ELSE SplitFrom(s, sep, i + 1, Append(cur, s[i]))

Split(s, sep) == SplitFrom(s, sep, 1, <<>>)

RECURSIVE Join(_, _)
Join(parts, sep) ==
    IF Len(parts) = 0 THEN <<>>
    ELSE IF Len(parts) = 1 THEN parts[1]
    ELSE parts[1] \o <<sep>> \o Join(Tail(parts), sep)

\* All sequences over alphabet of length at most n
RECURSIVE SeqsUpTo(_, _)
SeqsUpTo(alphabet, n) ==
    IF n = 0 THEN {<<>>}
    ELSE LET shorter == SeqsUpTo(alphabet, n - 1)
         IN  shorter \cup {Append(s, c) : s \in shorter, c \in alphabet}

None == [some |-> FALSE]

Some(v) == [some |-> TRUE, val |-> v]

---------------------------------------------------------------------------
(* std::path::Path, lexically (Unix)                                       *)

IsAbsolute(s) == Len(s) > 0 /\ s[1] = "/"

\* Path::components(): empty pieces and "." are dropped, except a leading
\* "." of a relative path (CurDir); the root itself is not listed here.
RECURSIVE ComponentsFrom(_, _, _)
ComponentsFrom(pieces, i, relative) ==
    IF i > Len(pieces) THEN <<>>
    ELSE LET p == pieces[i]
             keep == p # <<>> /\ (p = <<".">> => (i = 1 /\ relative))
         IN  (IF keep THEN <<p>> ELSE <<>>)
                \o ComponentsFrom(pieces, i + 1, relative)

Components(s) == ComponentsFrom(Split(s, "/"), 1, ~IsAbsolute(s))

\* Path::file_name(): the last component when it is a normal one
file_name(s) ==
    LET comps == Components(s)
    IN  IF Len(comps) = 0 THEN None
        ELSE LET last == comps[Len(comps)]
             IN  IF last = <<".", ".">> \/ last = <<".">> THEN None
                 ELSE Some(last)

LastDot(name) ==
    IF Contains(name, ".")
    THEN CHOOSE i \in 1..Len(name) :
            name[i] = "." /\ \A j \in (i + 1)..Len(name) : name[j] # "."
    ELSE 0

\* Path::extension(): the part of file_name after its last dot, unless the
\* name has no dot or its only dot is the first character
extension(s) ==
    LET fname == file_name(s)
    IN  IF ~fname.some THEN None
        ELSE LET name == fname.val
                 d == LastDot(name)
             IN  IF d = 0 \/ d = 1 THEN None
                 ELSE Some(SubSeq(name, d + 1, Len(name)))

\* Path::parent(): the path without its last component; None for the root
\* and for the empty path
parent(s) ==
    LET comps == Components(s)
    IN  IF Len(comps) = 0 THEN None
        ELSE LET rest == Join(SubSeq(comps, 1, Len(comps) - 1), "/")
             IN  Some(IF IsAbsolute(s) THEN <<"/">> \o rest ELSE rest)

---------------------------------------------------------------------------
(* The filesystem service (std::fs and the kernel's path walk)             *)

Root == <<>>

NodeParent(k) == IF Len(k) = 0 THEN k ELSE SubSeq(k, 1, Len(k) - 1)

\* One step through a symbolic link
Deref(f, k) ==
    IF k \in DOMAIN f /\ f[k].kind = "symlink" THEN f[k].target ELSE k

RECURSIVE NonEmpty(_)
NonEmpty(pieces) ==
    IF Len(pieces) = 0 THEN <<>>
    ELSE (IF pieces[1] = <<>> THEN <<>> ELSE <<pieces[1]>>)
            \o NonEmpty(Tail(pieces))

\* The walk over the pieces of a path string: every piece but the last must
\* lead to a directory; the result names the key of the last piece, which
\* may or may not be present.
RECURSIVE Walk(_, _, _, _)
Walk(f, pieces, i, cur) ==
    IF i > Len(pieces) THEN [st |-> "ok", key |-> cur]
    ELSE LET c == pieces[i]
         IN  IF c = <<".">> THEN Walk(f, pieces, i + 1, cur)
             ELSE IF c = <<".", ".">>
                  THEN Walk(f, pieces, i + 1, NodeParent(cur))
             ELSE LET next == Append(cur, c)
                      n == Deref(f, next)
                  IN  IF i = Len(pieces) THEN [st |-> "ok", key |-> next]
                      ELSE IF n \notin DOMAIN f
                           THEN [st |-> "enoent", key |-> next]
                      ELSE IF f[n].kind # "dir"
                           THEN [st |-> "enotdir", key |-> next]
                      ELSE Walk(f, pieces, i + 1, n)

Lookup(f, s) ==
    IF s = <<>> THEN [st |-> "enoent", key |-> Root]
    ELSE Walk(f, NonEmpty(Split(s, "/")), 1, Root)

\* stat(2): follows a final symbolic link; a trailing slash demands a
\* directory
Stat(f, s) ==
    LET w == Lookup(f, s)
        n == Deref(f, w.key)
    IN  IF w.st # "ok" THEN [st |-> w.st, node |-> Root]
        ELSE IF n \notin DOMAIN f THEN [st |-> "enoent", node |-> Root]
        ELSE IF f[n].kind = "symlink" THEN [st |-> "eloop", node |-> Root]
        ELSE IF EndsWith(s, "/") /\ f[n].kind # "dir"
             THEN [st |-> "enotdir", node |-> Root]
        ELSE [st |-> "ok", node |-> n]

\* lstat(2): the final symbolic link itself, unless a trailing slash
\* forces it to be followed
Lstat(f, s) ==
    LET w == Lookup(f, s)
    IN  IF EndsWith(s, "/") \/ w.st # "ok" THEN Stat(f, s)
        ELSE IF w.key \notin DOMAIN f THEN [st |-> "enoent", node |-> Root]
        ELSE [st |-> "ok", node |-> w.key]

\* Path::exists, Path::is_dir, Path::is_symlink
exists(f, s) == Stat(f, s).st = "ok"

is_dir(f, s) == Stat(f, s).st = "ok" /\ f[Stat(f, s).node].kind = "dir"

is_symlink(f, s) ==
    Lstat(f, s).st = "ok" /\ f[Lstat(f, s).node].kind = "symlink"

NewEntry(kind, t) ==
    [kind |-> kind, atime |-> t, mtime |-> t,
     mode |-> IF kind = "dir" THEN 493 ELSE 420,
     size |-> 0, target |-> Root]

\* A new entry at key k; its directory's modification time becomes t
AddEntry(f, k, kind, t) ==
    LET dir == NodeParent(k)
        g == [x \in DOMAIN f \cup {k} |->
                IF x = k THEN NewEntry(kind, t) ELSE f[x]]
    IN  [g EXCEPT ![dir].mtime = t]

\* fs::File::create: open(2) with O_WRONLY | O_CREAT | O_TRUNC
FileCreate(f, s, t) ==
    LET w == Lookup(f, s)
        k == Deref(f, w.key)
    IN  IF w.st # "ok" THEN [st |-> w.st, fs |-> f]
        ELSE IF EndsWith(s, "/") THEN [st |-> "eisdir", fs |-> f]
        ELSE IF k \in DOMAIN f
             THEN IF f[k].kind = "file"
                  THEN [st |-> "ok",
                        fs |-> [f EXCEPT ![k].size = 0, ![k].mtime = t]]
                  ELSE [st |-> "eisdir", fs |-> f]
        ELSE IF NodeParent(k) \in DOMAIN f /\ f[NodeParent(k)].kind = "dir"
             THEN [st |-> "ok", fs |-> AddEntry(f, k, "file", t)]
        ELSE [st |-> "enoent", fs |-> f]

\* fs::create_dir: mkdir(2)
create_dir(f, s, t) ==
    LET w == Lookup(f, s)
    IN  IF w.st # "ok" THEN [st |-> w.st, fs |-> f]
        ELSE IF w.key \in DOMAIN f THEN [st |-> "eexist", fs |-> f]
        ELSE [st |-> "ok", fs |-> AddEntry(f, w.key, "dir", t)]

\* fs::create_dir_all: mkdir, and on NotFound the parents first
RECURSIVE create_dir_all(_, _, _)
create_dir_all(f, s, t) ==
    IF Components(s) = <<>> /\ ~IsAbsolute(s) THEN [st |-> "ok", fs |-> f]
    ELSE LET first == create_dir(f, s, t)
         IN  IF first.st = "ok" THEN first
             ELSE IF first.st # "enoent"
                  THEN IF is_dir(f, s) THEN [st |-> "ok", fs |-> f]
                       ELSE first
             ELSE IF ~parent(s).some THEN [st |-> "enoent", fs |-> f]
             ELSE LET up == create_dir_all(f, parent(s).val, t)
                  IN  IF up.st # "ok" THEN up
                      ELSE LET again == create_dir(up.fs, s, t)
                           IN  IF again.st = "ok" THEN again
                               ELSE IF is_dir(up.fs, s)
                                    THEN [st |-> "ok", fs |-> up.fs]
                               ELSE again

\* filetime::set_file_times: utimensat(2), following symbolic links
utimes(f, s, at, mt) ==
    LET r == Stat(f, s)
    IN  IF r.st # "ok" THEN [st |-> r.st, fs |-> f]
        ELSE [st |-> "ok",
              fs |-> [f EXCEPT ![r.node].atime = at, ![r.node].mtime = mt]]

\* fs::set_permissions: chmod(2), following symbolic links
chmod(f, s, mode) ==
    LET r == Stat(f, s)
    IN  IF r.st # "ok" THEN [st |-> r.st, fs |-> f]
        ELSE [st |-> "ok", fs |-> [f EXCEPT ![r.node].mode = mode]]

---------------------------------------------------------------------------
(* Calendar (chrono) and integer parsing (core::str::parse)                *)

IsLeap(y) == (y % 4 = 0 /\ y % 100 # 0) \/ y % 400 = 0

DaysInMonth(y, m) ==
    IF m = 2 THEN (IF IsLeap(y) THEN 29 ELSE 28)
    ELSE IF m \in {4, 6, 9, 11} THEN 30 ELSE 31

\* Days from 1970-01-01 to the civil date y-m-d (proleptic Gregorian)
days_from_civil(y, m, d) ==
    LET yy == IF m <= 2 THEN y - 1 ELSE y
        era == yy \div 400
        yoe == yy - era * 400
        mp == IF m > 2 THEN m - 3 ELSE m + 9
        doy == (153 * mp + 2) \div 5 + d - 1
        doe == yoe * 365 + yoe \div 4 - yoe \div 100 + doy
    IN  era * 146097 + doe - 719468

\* Datelike::year of the day z days after 1970-01-01
year_of_days(z) ==
    LET zz == z + 719468
        era == zz \div 146097
        doe == zz - era * 146097
        yoe == (doe - doe \div 1460 + doe \div 36524 - doe \div 146096) \div 365
        doy == doe - (365 * yoe + yoe \div 4 - yoe \div 100)
        mp == (5 * doy + 2) \div 153
        m == IF mp < 10 THEN mp + 3 ELSE mp - 9
    IN  yoe + era * 400 + (IF m <= 2 THEN 1 ELSE 0)

\* NaiveDate::from_ymd_opt(..).and_then(and_hms_opt(..)), then the instant
\* of that date and time in UTC
naive_datetime(year, month, day, hour, minute, second) ==
    IF /\ month \in 1..12
       /\ day >= 1 /\ day <= DaysInMonth(year, month)
       /\ hour \in 0..23 /\ minute \in 0..59 /\ second \in 0..59
    THEN Some([days |-> days_from_civil(year, month, day),
               secs |-> hour * 3600 + minute * 60 + second])
    ELSE None

RECURSIVE DecimalValue(_)
DecimalValue(ds) ==
    IF Len(ds) = 0 THEN 0
    ELSE 10 * DecimalValue(SubSeq(ds, 1, Len(ds) - 1)) + DigitVal(ds[Len(ds)])

AllDigits(ds) == Len(ds) > 0 /\ \A i \in 1..Len(ds) : IsDigit(ds[i])

\* str::parse::<u32>: digits after an optional plus sign
parse_u32(s) ==
    LET ds == IF Len(s) > 0 /\ s[1] = "+" THEN Tail(s) ELSE s
    IN  IF AllDigits(ds) THEN Some(DecimalValue(ds)) ELSE None

\* str::parse::<i32>: digits after an optional sign
parse_i32(s) ==
    LET signed == Len(s) > 0 /\ s[1] \in {"+", "-"}
        ds == IF signed THEN Tail(s) ELSE s
    IN  IF ~AllDigits(ds) THEN None
        ELSE IF signed /\ s[1] = "-" THEN Some(0 - DecimalValue(ds))
        ELSE Some(DecimalValue(ds))

Ok(v) == [ok |-> TRUE, err |-> "", val |-> v]

Err(e) == [ok |-> FALSE, err |-> e, val |-> None]

\* stamp_fields with the two-digit pivot one year late (yy > 70)
stamp_fields_pivot_late(base, current_year) ==
    LET n == Len(base)
        At(a) == parse_u32(Slice(base, a, a + 2))
        yy == parse_i32(Slice(base, 0, 2))
        cc == parse_i32(Slice(base, 0, 2))
        yy12 == parse_i32(Slice(base, 2, 4))
        off == n - 8
        rest == <<At(off), At(off + 2), At(off + 4), At(off + 6)>>
        head == IF n = 8 THEN <<Some(current_year)>>
                ELSE IF n = 10
                     THEN <<IF ~yy.some THEN None
                            ELSE IF yy.val > 70 THEN Some(1900 + yy.val)
                            ELSE Some(2000 + yy.val)>>
                ELSE <<IF cc.some /\ yy12.some
                       THEN Some(cc.val * 100 + yy12.val) ELSE None>>
        all == head \o rest
    IN  IF n \notin {8, 10, 12} THEN Err("length")
        ELSE IF \E i \in 1..5 : ~all[i].some THEN Err("int")
        ELSE Ok([i \in 1..5 |-> all[i].val])

\* The (year, month, day, hour, minute) tuple the match on base_len builds
stamp_fields(base, current_year) ==
    LET n == Len(base)
        At(a) == parse_u32(Slice(base, a, a + 2))
        yy == parse_i32(Slice(base, 0, 2))
        cc == parse_i32(Slice(base, 0, 2))
        yy12 == parse_i32(Slice(base, 2, 4))
        off == n - 8
        rest == <<At(off), At(off + 2), At(off + 4), At(off + 6)>>
        head == IF n = 8 THEN <<Some(current_year)>>
                ELSE IF n = 10
                     THEN <<IF ~yy.some THEN None
                            ELSE IF yy.val >= 70 THEN Some(1900 + yy.val)
                            ELSE Some(2000 + yy.val)>>
                ELSE <<IF cc.some /\ yy12.some
                       THEN Some(cc.val * 100 + yy12.val) ELSE None>>
        all == head \o rest
    IN  IF n \notin {8, 10, 12} THEN Err("length")
        ELSE IF \E i \in 1..5 : ~all[i].some THEN Err("int")
        ELSE Ok([i \in 1..5 |-> all[i].val])

\* parse_timestamp_format: [[CC]YY]MMDDhhmm[.ss]
parse_timestamp_format(timestamp_str, current_year) ==
    LET parts == Split(timestamp_str, ".")
        dotted == Contains(timestamp_str, ".")
        base == IF dotted THEN parts[1] ELSE timestamp_str
        secs == IF dotted /\ Len(parts) = 2 THEN parse_u32(parts[2])
                ELSE Some(0)
        f == stamp_fields(base, current_year)
    IN  IF dotted /\ Len(parts) # 2 THEN Err("format")
        ELSE IF ~secs.some THEN Err("int")
        ELSE IF ~f.ok THEN f
        ELSE LET dt == naive_datetime(f.val[1], f.val[2], f.val[3],
                                      f.val[4], f.val[5], secs.val)
             IN  IF dt.some THEN Ok(dt) ELSE Err("values")

\* The candidate formats of parse_date_string, in priority order; an item
\* is a numeric field, a space or a literal character
DateYmd == <<"%Y", "-", "%m", "-", "%d">>

DateMdy == <<"%m", "/", "%d", "/", "%Y">>

DateDmy == <<"%d", ".", "%m", ".", "%Y">>

TimeHms == <<" ", "%H", ":", "%M", ":", "%S">>

TimeHm == <<" ", "%H", ":", "%M">>

formats ==
    <<[date |-> DateYmd, time |-> TimeHms], [date |-> DateYmd, time |-> TimeHm],
      [date |-> DateYmd, time |-> <<>>],
      [date |-> DateMdy, time |-> TimeHms], [date |-> DateMdy, time |-> TimeHm],
      [date |-> DateMdy, time |-> <<>>],
      [date |-> DateDmy, time |-> TimeHms], [date |-> DateDmy, time |-> TimeHm],
      [date |-> DateDmy, time |-> <<>>]>>

NumericItems == {"%Y", "%m", "%d", "%H", "%M", "%S"}

Unset == [i \in NumericItems |-> 0 - 1]

\* The number of leading digits of s, at most width
RECURSIVE DigitRun(_, _)
DigitRun(s, width) ==
    IF width = 0 \/ Len(s) = 0 \/ ~IsDigit(s[1]) THEN 0
    ELSE 1 + DigitRun(Tail(s), width - 1)

RECURSIVE TrimStart(_)
TrimStart(s) == IF Len(s) > 0 /\ s[1] = " " THEN TrimStart(Tail(s)) ELSE s

\* chrono's format::parse over the items from k on: the fields read, or
\* None when the input does not match or text is left over
RECURSIVE parse_items(_, _, _, _)
parse_items(s, fmt, k, fields) ==
    IF k > Len(fmt) THEN (IF s = <<>> THEN Some(fields) ELSE None)
    ELSE LET item == fmt[k]
             n == DigitRun(s, IF item = "%Y" THEN 4 ELSE 2)
         IN  IF item = " " THEN parse_items(TrimStart(s), fmt, k + 1, fields)
             ELSE IF item \in NumericItems
                  THEN IF n = 0 THEN None
                       ELSE parse_items(SubSeq(s, n + 1, Len(s)), fmt, k + 1,
                              [fields EXCEPT
                                 ![item] = DecimalValue(SubSeq(s, 1, n))])
             ELSE IF Len(s) > 0 /\ s[1] = item
                  THEN parse_items(Tail(s), fmt, k + 1, fields)
             ELSE None

\* NaiveDateTime::parse_from_str: date, hour and minute are needed, the
\* second defaults to 0
NaiveDateTime_parse_from_str(s, fmt) ==
    LET p == parse_items(s, fmt, 1, Unset)
    IN  IF ~p.some THEN None
        ELSE LET v == p.val
             IN  IF v["%H"] < 0 \/ v["%M"] < 0 THEN None
                 ELSE naive_datetime(v["%Y"], v["%m"], v["%d"], v["%H"], v["%M"],
                                     IF v["%S"] < 0 THEN 0 ELSE v["%S"])

\* NaiveDate::parse_from_str, then and_hms_opt(0, 0, 0)
NaiveDate_parse_from_str(s, fmt) ==
    LET p == parse_items(s, fmt, 1, Unset)
    IN  IF ~p.some THEN None
        ELSE naive_datetime(p.val["%Y"], p.val["%m"], p.val["%d"], 0, 0, 0)

\* parse_date_string: the first format, from k on, that parses
RECURSIVE try_formats(_, _)
try_formats(date_str, k) ==
    IF k > Len(formats) THEN Err("date")
    ELSE LET full == NaiveDateTime_parse_from_str(
                        date_str, formats[k].date \o formats[k].time)
             dateOnly == NaiveDate_parse_from_str(date_str, formats[k].date)
         IN  IF full.some THEN Ok(full)
             ELSE IF dateOnly.some THEN Ok(dateOnly)
             ELSE try_formats(date_str, k + 1)

parse_date_string(date_str) == try_formats(date_str, 1)

---------------------------------------------------------------------------
(* The program                                                             *)

\* validate_arguments without its check of the time sources
validate_arguments_no_time_sources(a) ==
    IF a.directory /\ a.file
    THEN "Cannot specify both --directory and --file flags"
    ELSE IF a.access_time_only /\ a.modification_time_only
         THEN "Cannot specify both --atime and --mtime flags"
    ELSE "ok"

\* validate_arguments: "ok", or the message of the error
validate_arguments(a) ==
    LET time_sources == <<a.date.some, a.timestamp.some, a.reference.some>>
        time_source_count == Cardinality({i \in 1..3 : time_sources[i]})
    IN  IF a.directory /\ a.file
        THEN "Cannot specify both --directory and --file flags"
        ELSE IF time_source_count > 1
             THEN "Cannot specify multiple time sources"
        ELSE IF a.access_time_only /\ a.modification_time_only
             THEN "Cannot specify both --atime and --mtime flags"
        ELSE "ok"

\* parse_reference_time: the modification time of the reference
parse_reference_time(f, reference_path) ==
    IF ~exists(f, reference_path) THEN Err("Reference file does not exist")
    ELSE Ok(Some(f[Stat(f, reference_path).node].mtime))

\* parse_timestamp: reference file > date string > timestamp format
parse_timestamp(a, f, t) ==
    IF a.reference.some THEN parse_reference_time(f, a.reference.val)
    ELSE IF a.date.some THEN parse_date_string(a.date.val)
    ELSE IF a.timestamp.some
         THEN parse_timestamp_format(a.timestamp.val, year_of_days(t.days))
    ELSE Ok(None)

\* get_time_spec that sets both times with --mtime too
get_time_spec_both(a, custom, t) ==
    LET instant == IF custom.some THEN custom.val ELSE t
    IN  IF a.access_time_only
        THEN [access_time |-> Some(instant), modification_time |-> None]
        ELSE [access_time |-> Some(instant),
              modification_time |-> Some(instant)]

\* get_time_spec: which of the two times to set, and to what
get_time_spec(a, custom, t) ==
    LET instant == IF custom.some THEN custom.val ELSE t
    IN  IF a.access_time_only
        THEN [access_time |-> Some(instant), modification_time |-> None]
        ELSE IF a.modification_time_only
             THEN [access_time |-> None, modification_time |-> Some(instant)]
        ELSE [access_time |-> Some(instant),
              modification_time |-> Some(instant)]

\* set_file_times
set_file_times(f, s, time_spec, a) ==
    LET meta == Stat(f, s)
        current == f[meta.node]
        access_time == IF time_spec.access_time.some
                       THEN time_spec.access_time.val ELSE current.atime
        modification_time == IF time_spec.modification_time.some
                             THEN time_spec.modification_time.val
                             ELSE current.mtime
    IN  IF a.no_dereference /\ is_symlink(f, s) THEN [st |-> "ok", fs |-> f]
        ELSE IF meta.st # "ok" THEN [st |-> meta.st, fs |-> f]
        ELSE utimes(f, s, access_time, modification_time)

RECURSIVE OctalValue(_)
OctalValue(ds) ==
    IF Len(ds) = 0 THEN 0
    ELSE 8 * OctalValue(SubSeq(ds, 1, Len(ds) - 1)) + DigitVal(ds[Len(ds)])

\* u32::from_str_radix(mode_str, 8)
from_str_radix8(mode_str) ==
    LET ds == IF Len(mode_str) > 0 /\ mode_str[1] = "+" THEN Tail(mode_str)
              ELSE mode_str
    IN  IF Len(ds) > 0 /\ \A i \in 1..Len(ds) : IsDigit(ds[i]) /\ DigitVal(ds[i]) < 8
        THEN Some(OctalValue(ds)) ELSE None

\* set_permissions
set_permissions(f, s, mode_str) ==
    LET mode == from_str_radix8(mode_str)
    IN  IF ~mode.some THEN [st |-> "Invalid mode format", fs |-> f]
        ELSE chmod(f, s, mode.val)

\* determine_creation_type with the name heuristics ahead of the existence
\* check
determine_creation_type_name_first(a, f, s, selection) ==
    IF a.directory THEN Ok("Directory")
    ELSE IF a.file THEN Ok("File")
    ELSE IF extension(s).some /\ extension(s).val # <<>> THEN Ok("File")
    ELSE IF EndsWith(s, "/") \/ EndsWith(s, "\\") THEN Ok("Directory")
    ELSE IF exists(f, s)
         THEN (IF is_dir(f, s) THEN Ok("Directory") ELSE Ok("File"))
    ELSE IF a.interactive
         THEN (IF selection = 0 THEN Ok("File")
               ELSE IF selection = 1 THEN Ok("Directory")
               ELSE Err("prompt"))
    ELSE Ok("File")

\* determine_creation_type that takes only '/' for a separator
determine_creation_type_slash_only(a, f, s, selection) ==
    IF a.directory THEN Ok("Directory")
    ELSE IF a.file THEN Ok("File")
    ELSE IF exists(f, s)
         THEN (IF is_dir(f, s) THEN Ok("Directory") ELSE Ok("File"))
    ELSE IF extension(s).some /\ extension(s).val # <<>> THEN Ok("File")
    ELSE IF EndsWith(s, "/") THEN Ok("Directory")
    ELSE IF a.interactive
         THEN (IF selection = 0 THEN Ok("File")
               ELSE IF selection = 1 THEN Ok("Directory")
               ELSE Err("prompt"))
    ELSE Ok("File")

\* determine_creation_type with the separator check ahead of the extension
\* check
determine_creation_type_separator_first(a, f, s, selection) ==
    IF a.directory THEN Ok("Directory")
    ELSE IF a.file THEN Ok("File")
    ELSE IF exists(f, s)
         THEN (IF is_dir(f, s) THEN Ok("Directory") ELSE Ok("File"))
    ELSE IF EndsWith(s, "/") \/ EndsWith(s, "\\") THEN Ok("Directory")
    ELSE IF extension(s).some /\ extension(s).val # <<>> THEN Ok("File")
    ELSE IF a.interactive
         THEN (IF selection = 0 THEN Ok("File")
               ELSE IF selection = 1 THEN Ok("Directory")
               ELSE Err("prompt"))
    ELSE Ok("File")

\* determine_creation_type; selection is what the prompt returns (0 File,
\* 1 Directory, -1 the prompt failed)
determine_creation_type(a, f, s, selection) ==
    IF a.directory THEN Ok("Directory")
    ELSE IF a.file THEN Ok("File")
    ELSE IF exists(f, s)
         THEN (IF is_dir(f, s) THEN Ok("Directory") ELSE Ok("File"))
    ELSE IF extension(s).some /\ extension(s).val # <<>> THEN Ok("File")
    ELSE IF EndsWith(s, "/") \/ EndsWith(s, "\\") THEN Ok("Directory")
    ELSE IF a.interactive
         THEN (IF selection = 0 THEN Ok("File")
               ELSE IF selection = 1 THEN Ok("Directory")
               ELSE Err("prompt"))
    ELSE Ok("File")

\* create_file without the check for an existing path
create_file_always(f, s, t) == FileCreate(f, s, t)

\* create_file
create_file(f, s, t) ==
    IF exists(f, s) THEN [st |-> "ok", fs |-> f] ELSE FileCreate(f, s, t)

\* create_directory
create_directory(f, s, t) ==
    IF exists(f, s)
    THEN (IF is_dir(f, s) THEN [st |-> "ok", fs |-> f]
          ELSE [st |-> "Path exists but is not a directory", fs |-> f])
    ELSE create_dir(f, s, t)

\* The parents step of process_single_path
create_parents(a, f, s, t) ==
    IF a.parents /\ parent(s).some /\ ~exists(f, parent(s).val)
    THEN create_dir_all(f, parent(s).val, t)
    ELSE [st |-> "ok", fs |-> f]

Tick(t) ==
    IF t.secs = 86399 THEN [days |-> t.days + 1, secs |-> 0]
    ELSE [t EXCEPT !.secs = t.secs + 1]

---------------------------------------------------------------------------
(* Actions: main, and process_single_path step by step                     *)

\* main up to the loop: validate_arguments(&args)?
Validate ==
    /\ pc = "main"
    /\ pc' = IF validate_arguments(args) = "ok" THEN "loop" ELSE "err"
    /\ UNCHANGED <<args, fs, now, idx, path_str, custom_time, creation_type,
                   instants>>

\* for path_str in &args.paths, and Ok(()) after the last one
ForLoop ==
    /\ pc = "loop"
    /\ IF idx < Len(args.paths)
       THEN /\ idx' = idx + 1
            /\ path_str' = args.paths[idx + 1]
            /\ pc' = "parse"
       ELSE /\ pc' = "ok"
            /\ UNCHANGED <<idx, path_str>>
    /\ UNCHANGED <<args, fs, now, custom_time, creation_type, instants>>

\* Begin without the skip of a missing path in no-create mode
Begin_touch_missing ==
    /\ pc = "parse"
    /\ LET r == parse_timestamp(args, fs, now)
       IN  IF ~r.ok
           THEN /\ pc' = "err"
                /\ UNCHANGED <<custom_time, instants>>
           ELSE /\ custom_time' = r.val
                /\ instants' = IF r.val.some
                               THEN Append(instants, r.val.val) ELSE instants
                /\ pc' = IF ~args.no_create THEN "classify" ELSE "touch"
    /\ now' = Tick(now)
    /\ UNCHANGED <<args, fs, idx, path_str, creation_type>>

\* process_single_path: parse_timestamp(args)?, then the no-create check
Begin ==
    /\ pc = "parse"
    /\ LET r == parse_timestamp(args, fs, now)
       IN  IF ~r.ok
           THEN /\ pc' = "err"
                /\ UNCHANGED <<custom_time, instants>>
           ELSE /\ custom_time' = r.val
                /\ instants' = IF r.val.some
                               THEN Append(instants, r.val.val) ELSE instants
                /\ pc' = IF ~args.no_create THEN "classify"
                         ELSE IF exists(fs, path_str) THEN "touch"
                         ELSE "loop"
    /\ now' = Tick(now)
    /\ UNCHANGED <<args, fs, idx, path_str, creation_type>>

\* process_single_path in no-create mode, on an existing path
UpdateTimestamps ==
    /\ pc = "touch"
    /\ LET r == set_file_times(fs, path_str,
                               get_time_spec(args, custom_time, now), args)
       IN  /\ fs' = r.fs
           /\ pc' = IF r.st = "ok" THEN "loop" ELSE "err"
    /\ now' = Tick(now)
    /\ UNCHANGED <<args, idx, path_str, custom_time, creation_type, instants>>

\* process_single_path: determine_creation_type(args, &path, path_str)?
Classify ==
    /\ pc = "classify"
    /\ \E selection \in {0 - 1, 0, 1} :
          LET r == determine_creation_type(args, fs, path_str, selection)
          IN  IF r.ok
              THEN creation_type' = r.val /\ pc' = "parents"
              ELSE pc' = "err" /\ UNCHANGED creation_type
    /\ now' = Tick(now)
    /\ UNCHANGED <<args, fs, idx, path_str, custom_time, instants>>

\* process_single_path: create parents if needed
CreateParents ==
    /\ pc = "parents"
    /\ LET r == create_parents(args, fs, path_str, now)
       IN  /\ fs' = r.fs
           /\ pc' = IF r.st = "ok" THEN "create" ELSE "err"
    /\ now' = Tick(now)
    /\ UNCHANGED <<args, idx, path_str, custom_time, creation_type, instants>>

\* CreateTarget that goes on to the next path when the creation fails
CreateTarget_best_effort ==
    /\ pc = "create"
    /\ LET r == IF creation_type = "File" THEN create_file(fs, path_str, now)
                ELSE create_directory(fs, path_str, now)
       IN  /\ fs' = r.fs
           /\ pc' = IF r.st = "ok" THEN "times" ELSE "loop"
    /\ now' = Tick(now)
    /\ UNCHANGED <<args, idx, path_str, custom_time, creation_type, instants>>

\* process_single_path: create the target
CreateTarget ==
    /\ pc = "create"
    /\ LET r == IF creation_type = "File" THEN create_file(fs, path_str, now)
                ELSE create_directory(fs, path_str, now)
       IN  /\ fs' = r.fs
           /\ pc' = IF r.st = "ok" THEN "times" ELSE "err"
    /\ now' = Tick(now)
    /\ UNCHANGED <<args, idx, path_str, custom_time, creation_type, instants>>

\* process_single_path: set custom timestamps if specified
SetCustomTimestamps ==
    /\ pc = "times"
    /\ LET wanted == \/ custom_time.some
                     \/ args.access_time_only
                     \/ args.modification_time_only
           r == IF wanted
                THEN set_file_times(fs, path_str,
                        get_time_spec(args, custom_time, now), args)
                ELSE [st |-> "ok", fs |-> fs]
       IN  /\ fs' = r.fs
           /\ pc' = IF r.st = "ok" THEN "perms" ELSE "err"
    /\ now' = Tick(now)
    /\ UNCHANGED <<args, idx, path_str, custom_time, creation_type, instants>>

\* process_single_path: set permissions if specified, then Ok(())
SetPermissions ==
    /\ pc = "perms"
    /\ LET r == IF args.mode.some
                THEN set_permissions(fs, path_str, args.mode.val)
                ELSE [st |-> "ok", fs |-> fs]
       IN  /\ fs' = r.fs
           /\ pc' = IF r.st = "ok" THEN "loop" ELSE "err"
    /\ now' = Tick(now)
    /\ UNCHANGED <<args, idx, path_str, custom_time, creation_type, instants>>

Next ==
    \/ Validate
    \/ ForLoop
    \/ Begin
    \/ UpdateTimestamps
    \/ Classify
    \/ CreateParents
    \/ CreateTarget
    \/ SetCustomTimestamps
    \/ SetPermissions

---------------------------------------------------------------------------
(* Initial states: the command lines and filesystems of the runs checked   *)

MaxPaths == 2

StartDay == days_from_civil(2026, 11, 3)

Past(n) == [days |-> StartDay - 1, secs |-> n]

Entry(kind, at, mt, size, target) ==
    [kind |-> kind, atime |-> Past(at), mtime |-> Past(mt),
     mode |-> IF kind = "dir" THEN 493 ELSE 420, size |-> size,
     target |-> target]

\* /d is a directory, /f a file, /l a symbolic link to /f
InitialFs ==
    (Root :> Entry("dir", 1, 2, 0, Root))
      @@ (<<<<"d">>>> :> Entry("dir", 3, 4, 0, Root))
      @@ (<<<<"f">>>> :> Entry("file", 5, 6, 1, Root))
      @@ (<<<<"l">>>> :> Entry("symlink", 7, 8, 0, <<<<"f">>>>))

\* The paths of the multi-path runs: a new file in /d, the link, a path
\* whose parent is missing, and the existing directory
PathCatalogue == {<<"d", "/", "a">>, <<"l">>, <<"n", "/", "x">>, <<"d">>}

PathLists == SeqsUpTo(PathCatalogue, MaxPaths) \ {<<>>}

Flags ==
    [directory : BOOLEAN, file : BOOLEAN, parents : BOOLEAN,
     interactive : BOOLEAN, no_create : BOOLEAN,
     access_time_only : BOOLEAN, modification_time_only : BOOLEAN,
     no_dereference : BOOLEAN]

NoFlags ==
    [directory |-> FALSE, file |-> FALSE, parents |-> FALSE,
     interactive |-> FALSE, no_create |-> FALSE,
     access_time_only |-> FALSE, modification_time_only |-> FALSE,
     no_dereference |-> FALSE]

MakeArgs(paths, flags, mode, date, timestamp, reference) ==
    [paths |-> paths, directory |-> flags.directory, file |-> flags.file,
     parents |-> flags.parents, mode |-> mode,
     interactive |-> flags.interactive, no_create |-> flags.no_create,
     date |-> date, timestamp |-> timestamp, reference |-> reference,
     access_time_only |-> flags.access_time_only,
     modification_time_only |-> flags.modification_time_only,
     no_dereference |-> flags.no_dereference]

Modes == {None, Some(<<"7", "5", "5">>), Some(<<"8">>)}

GoodDate == Some(<<"2", "0", "2", "3", "-", "1", "2", "-", "2", "5">>)

GoodStamp ==
    Some(<<"2", "0", "2", "3", "1", "2", "2", "5", "1", "5", "3", "0">>)

BadStamp == Some(<<"1", "3", "0", "1", "0", "0", "0", "0">>)

GoodReference == Some(<<"d">>)

MissingReference == Some(<<"z">>)

\* No time source, each single source (good and bad), and every
\* combination of two or three good ones
TimeSources ==
    {ts \in [date : {None, GoodDate},
             timestamp : {None, GoodStamp, BadStamp},
             reference : {None, GoodReference, MissingReference}] :
        \/ Cardinality({x \in {ts.date, ts.timestamp, ts.reference} :
                           x.some}) <= 1
        \/ (ts.timestamp # BadStamp /\ ts.reference # MissingReference)}

InitRun ==
    /\ now = [days |-> StartDay, secs |-> 0]
    /\ pc = "main"
    /\ idx = 0
    /\ path_str = <<>>
    /\ custom_time = None
    /\ creation_type = "none"
    /\ instants = <<>>

\* Runs over one or more paths, with every combination of the flags but
\* --interactive
Init ==
    /\ \E paths \in PathLists, flags \in Flags, mode \in Modes,
          ts \in TimeSources :
          /\ ~flags.interactive
          /\ args = MakeArgs(paths, flags, mode, ts.date, ts.timestamp,
                             ts.reference)
    /\ fs = InitialFs
    /\ InitRun

Spec == Init /\ [][Next]_vars

\* Runs over one path, drawn from every string up to MaxPathLen, on a
\* filesystem where that path is absent, a file or a directory
MaxPathLen == 4

PathAlphabet == {"a", ".", "/", "\\"}

BareFs == (Root :> Entry("dir", 1, 2, 0, Root))

Populated(s, kind) ==
    LET base == IF parent(s).some
                THEN create_dir_all(BareFs, parent(s).val, Past(3)).fs
                ELSE BareFs
        w == Lookup(base, s)
    IN  IF w.st = "ok" /\ w.key \notin DOMAIN base
        THEN AddEntry(base, w.key, kind, Past(4))
        ELSE base

InitClassify ==
    /\ \E s \in SeqsUpTo(PathAlphabet, MaxPathLen), flags \in Flags :
          /\ ~flags.parents /\ ~flags.no_dereference
          /\ ~flags.access_time_only /\ ~flags.modification_time_only
          /\ flags.no_create =>
                ~(flags.directory \/ flags.file \/ flags.interactive)
          /\ args = MakeArgs(<<s>>, flags, None, None, None, None)
          /\ fs \in {BareFs, Populated(s, "file"), Populated(s, "dir")}
    /\ InitRun

SpecClassify == InitClassify /\ [][Next]_vars

\* Runs on /f with a compact stamp: a body MMDDhhmm behind every YY, behind
\* some CCYY and behind prefixes of other lengths, with and without .ss
TwoDigits(n) == <<Digits[(n \div 10) + 1], Digits[(n % 10) + 1]>>

StampBodies ==
    {<<"1", "2", "2", "5", "1", "5", "3", "0">>,
     <<"0", "2", "2", "9", "0", "0", "0", "0">>,
     <<"1", "3", "0", "1", "0", "0", "0", "0">>}

StampPrefixes ==
    {<<>>, <<"1">>, <<"1", "2", "3">>, <<"1", "2", "3", "4", "5">>}
      \cup {TwoDigits(yy) : yy \in 0..99}
      \cup {TwoDigits(cc) \o TwoDigits(yy) :
               cc \in {0, 19, 20, 99}, yy \in {0, 1, 69, 70, 99}}

StampSuffixes ==
    {<<>>, <<".", "4", "5">>, <<".">>, <<".", "6", "1">>,
     <<".", "4", ".", "5">>}

Stamps ==
    {<<>>, <<"1", "2", "2", "5", "1", "5", "3">>}
      \cup {p \o b \o x :
               p \in StampPrefixes, b \in StampBodies, x \in StampSuffixes}

InitStamp ==
    /\ \E stamp \in Stamps, no_create \in BOOLEAN :
          args = MakeArgs(<<(<<"f">>)>>, [NoFlags EXCEPT !.no_create = no_create],
                          None, None, Some(stamp), None)
    /\ fs = InitialFs
    /\ now \in {[days |-> StartDay, secs |-> 0],
                [days |-> StartDay + 365, secs |-> 0]}
    /\ pc = "main"
    /\ idx = 0
    /\ path_str = <<>>
    /\ custom_time = None
    /\ creation_type = "none"
    /\ instants = <<>>

SpecStamp == InitStamp /\ [][Next]_vars

---------------------------------------------------------------------------
(* Claims                                                                  *)

Conflicting(a) ==
    \/ a.directory /\ a.file
    \/ a.access_time_only /\ a.modification_time_only
    \/ a.date.some /\ a.timestamp.some
    \/ a.date.some /\ a.reference.some
    \/ a.timestamp.some /\ a.reference.some

\* C1: when the flags conflict (-d with -f, -a with --mtime, or more than one
\* of --date / --timestamp / --reference), the run never gets past
\* validation: it takes no path, it ends in the error state, and the
\* filesystem stays the one the run started with, whatever the paths.
C1_ConflictFailsBeforeAnyPath ==
    Conflicting(args) =>
        /\ pc \in {"main", "err"}
        /\ idx = 0
        /\ fs = InitialFs

C1_Witness ==
    /\ pc = "err"
    /\ idx = 0
    /\ args.date.some /\ args.timestamp.some
    /\ Len(args.paths) = 2

\* Whether the step of process_single_path at pc fails in this state
StepFails ==
    LET spec == get_time_spec(args, custom_time, now)
        wanted == \/ custom_time.some
                  \/ args.access_time_only
                  \/ args.modification_time_only
    IN  CASE pc = "parse" -> ~parse_timestamp(args, fs, now).ok
          [] pc = "touch" ->
                set_file_times(fs, path_str, spec, args).st # "ok"
          [] pc = "parents" ->
                create_parents(args, fs, path_str, now).st # "ok"
          [] pc = "create" ->
                IF creation_type = "File"
                THEN create_file(fs, path_str, now).st # "ok"
                ELSE create_directory(fs, path_str, now).st # "ok"
          [] pc = "times" ->
                wanted /\ set_file_times(fs, path_str, spec, args).st # "ok"
          [] pc = "perms" ->
                /\ args.mode.some
                /\ set_permissions(fs, path_str, args.mode.val).st # "ok"
          [] OTHER -> FALSE

\* C2: paths are taken strictly in command-line order, one at a time (the
\* next path is taken only from the loop head, after the previous one has
\* finished); a step that fails ends the run in the error state; once the
\* run has ended no step is taken, so nothing is done for the paths after a
\* failing one; and no step removes an entry, so what earlier paths created
\* is still there.
C2_SequentialFailFast ==
    [][/\ pc \notin {"ok", "err"}
       /\ IF pc = "loop" /\ idx < Len(args.paths)
          THEN /\ idx' = idx + 1
               /\ path_str' = args.paths[idx + 1]
               /\ pc' = "parse"
          ELSE idx' = idx /\ path_str' = path_str
       /\ StepFails => pc' = "err"
       /\ pc' = "ok" => idx = Len(args.paths)
       /\ fs' # fs => idx >= 1 /\ path_str = args.paths[idx]
       /\ DOMAIN fs \subseteq DOMAIN fs'
      ]_vars

\* The first of two paths failed after it had changed the filesystem
C2_Witness ==
    /\ pc = "err"
    /\ idx = 1
    /\ Len(args.paths) = 2
    /\ fs # InitialFs

\* C3: within one invocation every path gets the same resolved instant
C3_OneInstantPerInvocation ==
    \A i, j \in DOMAIN instants : instants[i] = instants[j]

\* The classification just made: the run stands right after the
\* determine_creation_type call, which neither flag decided
Classified ==
    pc = "parents" /\ ~args.directory /\ ~args.file

HasExtension(s) == extension(s).some /\ Len(extension(s).val) > 0

EndsWithSeparator(s) == EndsWith(s, "/") \/ EndsWith(s, "\\")

\* C4: with no explicit flag, a path that exists is classified by its actual
\* kind (Directory if it is a directory, File otherwise), whatever its
\* extension or trailing separator.
C4_ExistingKindWins ==
    (Classified /\ exists(fs, path_str)) =>
        creation_type =
            IF fs[Stat(fs, path_str).node].kind = "dir" THEN "Directory"
            ELSE "File"

\* An existing directory whose name carries an extension
C4_Witness ==
    /\ Classified
    /\ exists(fs, path_str)
    /\ fs[Stat(fs, path_str).node].kind = "dir"
    /\ HasExtension(path_str)
    /\ creation_type = "Directory"

\* C5 as stated: every path string that ends in a separator, with no flag and
\* not existing, is classified Directory, extension or not.
C5_SeparatorAlwaysDirectory ==
    (Classified /\ ~exists(fs, path_str) /\ EndsWithSeparator(path_str)) =>
        creation_type = "Directory"

\* C5 amended: such a path string is classified Directory unless its last
\* component carries a non-empty extension, and then it is classified File.
C5_SeparatorDirectoryUnlessExtension ==
    (Classified /\ ~exists(fs, path_str) /\ EndsWithSeparator(path_str)) =>
        creation_type =
            IF HasExtension(path_str) THEN "File" ELSE "Directory"

C5_Witness ==
    /\ Classified
    /\ ~exists(fs, path_str)
    /\ EndsWith(path_str, "\\")
    /\ ~HasExtension(path_str)
    /\ creation_type = "Directory"

\* C6 as stated: every path with a non-empty extension, with no flag, is
\* classified File.
C6_ExtensionAlwaysFile ==
    (Classified /\ HasExtension(path_str)) => creation_type = "File"

\* C6 amended: every path with a non-empty extension, with no flag, is
\* classified File unless it is an existing directory.
C6_ExtensionFileUnlessDirectory ==
    (Classified /\ HasExtension(path_str) /\ ~is_dir(fs, path_str)) =>
        creation_type = "File"

\* A path with an extension and a trailing slash that does not exist
C6_Witness ==
    /\ Classified
    /\ HasExtension(path_str)
    /\ EndsWith(path_str, "/")
    /\ ~exists(fs, path_str)
    /\ creation_type = "File"

\* The step at pc is the apply step (a call of set_file_times)
ApplyStep ==
    \/ pc = "touch"
    \/ /\ pc = "times"
       /\ \/ custom_time.some
          \/ args.access_time_only
          \/ args.modification_time_only

\* C7: an apply step that succeeds with --mtime leaves every access time as
\* it was before the step, and with -a every modification time.
C7_OtherTimeKept ==
    [][(ApplyStep /\ pc' # "err") =>
          \A k \in DOMAIN fs :
             /\ args.modification_time_only => fs'[k].atime = fs[k].atime
             /\ args.access_time_only => fs'[k].mtime = fs[k].mtime
      ]_vars

\* --mtime on /l: the modification time of /f is new, its access time is not
C7_Witness ==
    /\ args.modification_time_only
    /\ fs[<<<<"f">>>>].mtime # InitialFs[<<<<"f">>>>].mtime
    /\ fs[<<<<"f">>>>].atime = InitialFs[<<<<"f">>>>].atime

\* C8: with --no-dereference on a symbolic link, an apply step either ends in
\* the error state or leaves the link with the times asked for; it never
\* succeeds with the link's times as they were.
C8_LinkTimesSetOrError ==
    [][(ApplyStep /\ args.no_dereference /\ is_symlink(fs, path_str)) =>
          LET link == Lstat(fs, path_str).node
              spec == get_time_spec(args, custom_time, now)
          IN  \/ pc' = "err"
              \/ /\ spec.access_time.some =>
                        fs'[link].atime = spec.access_time.val
                 /\ spec.modification_time.some =>
                        fs'[link].mtime = spec.modification_time.val
      ]_vars

\* The first step of a path in no-create mode when the path does not exist
SkipStep == pc = "parse" /\ args.no_create /\ ~exists(fs, path_str)

\* C9 as stated: in no-create mode a path that does not exist is left alone
\* and its processing succeeds, the run going on to the next path.
C9_MissingPathSkipped ==
    [][SkipStep => (fs' = fs /\ pc' = "loop")]_vars

\* C9 amended: in no-create mode a path that does not exist is left alone;
\* its processing succeeds, the run going on to the next path, when the time
\* source (if any) resolves, and ends the run with an error when it does not.
C9_MissingPathSkippedIfTimeResolves ==
    [][SkipStep =>
          /\ fs' = fs
          /\ pc' = IF parse_timestamp(args, fs, now).ok THEN "loop" ELSE "err"
      ]_vars

\* The first of two paths was skipped with a time source given
C9_Witness ==
    /\ pc = "loop"
    /\ idx = 1
    /\ Len(args.paths) = 2
    /\ args.no_create
    /\ args.timestamp.some
    /\ ~exists(fs, path_str)
    /\ fs = InitialFs

\* The part of the stamp before the optional .ss
StampBase == Split(args.timestamp.val, ".")[1]

\* The year C10 states for a base of 8, 10 or 12 digits
ExpectedYear(base) ==
    LET first == DecimalValue(SubSeq(base, 1, 2))
        second == DecimalValue(SubSeq(base, 3, 4))
    IN  IF Len(base) = 8 THEN year_of_days(now.days)
        ELSE IF Len(base) = 10
             THEN (IF first \in 70..99 THEN 1900 + first ELSE 2000 + first)
        ELSE first * 100 + second

\* C10: once parse_timestamp has run on a compact stamp, a base of any
\* length but 8, 10 or 12 has ended the run in the error state with no
\* instant, and an instant produced from a base of length 8 lies in the
\* current year, from length 10 in 1900+YY (YY in 70..99) or 2000+YY (YY
\* in 00..69), from length 12 in CC*100+YY.
C10_YearByLength ==
    (idx = 1 /\ pc # "parse") =>
        IF Len(StampBase) \notin {8, 10, 12}
        THEN pc = "err" /\ ~custom_time.some
        ELSE custom_time.some =>
                year_of_days(custom_time.val.days) = ExpectedYear(StampBase)

\* YYMMDDhhmm with YY = 70 resolved to 1970
C10_Witness ==
    /\ custom_time.some
    /\ Len(StampBase) = 10
    /\ SubSeq(StampBase, 1, 2) = <<"7", "0">>
    /\ year_of_days(custom_time.val.days) = 1970

\* A step of process_single_path past the no-create check
CreateModeStep == pc \in {"classify", "parents", "create", "times", "perms"}

\* Neither a time source nor -a / --mtime is given
NoTimeAsked ==
    /\ ~args.date.some /\ ~args.timestamp.some /\ ~args.reference.some
    /\ ~args.access_time_only /\ ~args.modification_time_only

\* The entries whose times are those of the path: the one it leads to, and
\* the path's own entry when that is a symbolic link
TimeNodes(f, s) == {Stat(f, s).node, Lstat(f, s).node}

\* In create mode with no time asked for, a step on an existing path leaves
\* the path's times as they were
C11_CreateModeKeepsTimes ==
    (CreateModeStep /\ ~args.no_create /\ NoTimeAsked
        /\ exists(fs, path_str)) =>
       \A n \in TimeNodes(fs, path_str) :
          fs'[n].atime = fs[n].atime /\ fs'[n].mtime = fs[n].mtime

\* In no-create mode a successful apply step leaves the path with the times
\* of the time specification (the resolved instant, or now)
C11_NoCreateSetsTimes ==
    (pc = "touch" /\ pc' # "err") =>
       LET spec == get_time_spec(args, custom_time, now)
       IN  \E n \in TimeNodes(fs, path_str) :
              /\ spec.access_time.some =>
                    fs'[n].atime = spec.access_time.val
              /\ spec.modification_time.some =>
                    fs'[n].mtime = spec.modification_time.val

\* C11: in create mode with no time source and neither -a nor --mtime, the
\* steps of an existing path leave its access and modification times as they
\* were; in no-create mode the times of an existing path are always set, to
\* the resolved instant or to now.
C11_TimesRewrittenOnlyWhenAsked ==
    [][C11_CreateModeKeepsTimes /\ C11_NoCreateSetsTimes]_vars

\* The creation step on a path that already exists
CreateExisting == pc = "create" /\ exists(fs, path_str)

\* C12: no step removes an entry, changes its kind, replaces it or truncates
\* it; the creation step on an existing path leaves the filesystem as it was,
\* succeeding for create_file and for create_directory on a directory, and
\* ending the run with an error for create_directory on a non-directory.
C12_ExistingEntriesKept ==
    [][/\ \A k \in DOMAIN fs :
             /\ k \in DOMAIN fs'
             /\ fs'[k].kind = fs[k].kind
             /\ fs'[k].size = fs[k].size
             /\ fs'[k].target = fs[k].target
       /\ CreateExisting =>
             /\ fs' = fs
             /\ pc' = IF creation_type = "File" \/ is_dir(fs, path_str)
                      THEN "times" ELSE "err"
      ]_vars

\* -f on the existing directory /d: the creation step has succeeded and
\* nothing was created
C12_Witness ==
    /\ args.file
    /\ idx = 1
    /\ path_str = <<"d">>
    /\ pc = "times"
    /\ creation_type = "File"
    /\ fs = InitialFs

=============================================================================
